---- MODULE Spec2Model ----
(***************************************************************************)
(* State-machine model of the hungie backend's substitution resolver       *)
(* (substitutions.py), of the smart-search handler that classifies a chat  *)
(* message and of the three substitution endpoints (prod_server.py).       *)
(* Text is modelled by TLC strings: Len,                                   *)
(* SubSeq and \o act on them character by character, so lower-casing,      *)
(* stripping, splitting and substring containment are computed, not        *)
(* assumed.                                                                *)
(***************************************************************************)
EXTENDS Integers, Sequences, FiniteSets, TLC

VARIABLES
    INGREDIENT_SUBSTITUTIONS, \* the module-level table: ordered <<key, entries>> pairs
    client,                   \* the NLG client built at import: "none" or "configured"
    datastore,                \* the database file: "ok", "missing" or "broken"
    hashSeed,                 \* the process's string-hash seed (fixes set iteration order)
    call,                     \* the operation called last and its argument
    locals,                   \* smart_search's local variables when it left
    dbTrace,                  \* the datastore accesses of the operation called last
    nlgTrace,                 \* its calls of the NLG client, each with what the call did
    ret,                      \* what the operation called last returned or raised
    earlier                   \* call, locals and ret of the same request's earlier call

vars == <<INGREDIENT_SUBSTITUTIONS, client, datastore, hashSeed, call, locals, dbTrace,
          nlgTrace, ret, earlier>>

(***************************************************************************)
(* Bounds of the model.                                                    *)
(***************************************************************************)
MaxParts == 2   \* fragments concatenated into one chat message
MaxItems == 3   \* ingredients in one bulk request
MaxSeed == 1    \* string-hash seeds 0..MaxSeed
MaxRows == 1    \* rows a datastore query may return

(***************************************************************************)
(* Python's string operations.                                             *)
(***************************************************************************)
UpperCase == "ABCDEFGHIJKLMNOPQRSTUVWXYZ"
LowerCase == "abcdefghijklmnopqrstuvwxyz"
Whitespace == {" ", "\t", "\n"}

CharAt(s, i) == SubSeq(s, i, i)

\* the position of character c in alphabet, 0 when it is not there
IndexIn(alphabet, c) ==
    IF \E i \in 1..Len(alphabet) : CharAt(alphabet, i) = c
    THEN CHOOSE i \in 1..Len(alphabet) : CharAt(alphabet, i) = c
    ELSE 0

UpperIndex ==
    [c \in {CharAt(UpperCase, i) : i \in 1..Len(UpperCase)} |-> IndexIn(UpperCase, c)]

LowerIndex ==
    [c \in {CharAt(LowerCase, i) : i \in 1..Len(LowerCase)} |-> IndexIn(LowerCase, c)]

LowerChar(c) ==
    IF c \in DOMAIN UpperIndex THEN CharAt(LowerCase, UpperIndex[c]) ELSE c

UpperChar(c) ==
    IF c \in DOMAIN LowerIndex THEN CharAt(UpperCase, LowerIndex[c]) ELSE c

RECURSIVE Lower(_)
\* str.lower()
Lower(s) ==
    IF Len(s) = 0 THEN "" ELSE LowerChar(CharAt(s, 1)) \o Lower(SubSeq(s, 2, Len(s)))

RECURSIVE LStrip(_)
LStrip(s) ==
    IF Len(s) > 0 /\ CharAt(s, 1) \in Whitespace THEN LStrip(SubSeq(s, 2, Len(s))) ELSE s

RECURSIVE RStrip(_)
RStrip(s) ==
    IF Len(s) > 0 /\ CharAt(s, Len(s)) \in Whitespace
    THEN RStrip(SubSeq(s, 1, Len(s) - 1))
    ELSE s

\* str.strip()
Strip(s) == RStrip(LStrip(s))

\* needle in haystack
Contains(haystack, needle) ==
    \E i \in 0..(Len(haystack) - Len(needle)) :
        SubSeq(haystack, i + 1, i + Len(needle)) = needle

RECURSIVE SplitFrom(_, _, _)
\* words of s from position i on, cur being the word under way
SplitFrom(s, i, cur) ==
    IF i > Len(s) THEN (IF cur = "" THEN <<>> ELSE <<cur>>)
    ELSE IF CharAt(s, i) \in Whitespace
         THEN (IF cur = "" THEN <<>> ELSE <<cur>>) \o SplitFrom(s, i + 1, "")
         ELSE SplitFrom(s, i + 1, cur \o CharAt(s, i))

\* str.split()
Split(s) == SplitFrom(s, 1, "")

(***************************************************************************)
(* substitutions.py: the table.                                            *)
(***************************************************************************)
Sub(s, r, n) == [substitute |-> s, ratio |-> r, notes |-> n]

TableAtImport ==
    << <<"heavy cream", <<
          Sub("milk + butter", "3/4 cup milk + 1/4 cup melted butter", "Perfect for cooking, slightly less rich"),
          Sub("evaporated milk", "1:1 ratio", "Great for soups and sauces"),
          Sub("coconut cream", "1:1 ratio", "Adds coconut flavor, dairy-free option") >> >>,
       <<"buttermilk", <<
          Sub("milk + vinegar", "1 cup milk + 1 tbsp white vinegar", "Let sit 5 minutes, works perfectly for baking"),
          Sub("milk + lemon juice", "1 cup milk + 1 tbsp lemon juice", "Let sit 5 minutes, slightly tangier than vinegar"),
          Sub("yogurt + milk", "1/2 cup yogurt + 1/2 cup milk", "Creates perfect consistency for pancakes") >> >>,
       <<"sour cream", <<
          Sub("greek yogurt", "1:1 ratio", "Healthier option, same tangy flavor"),
          Sub("cream cheese + milk", "3/4 cup cream cheese + 1/4 cup milk", "Mix until smooth, richer flavor"),
          Sub("cottage cheese + lemon", "1 cup cottage cheese + 1 tsp lemon juice", "Blend smooth, lighter option") >> >>,
       <<"eggs", <<
          Sub("applesauce", "1/4 cup per egg", "Best for moist baked goods, adds slight sweetness"),
          Sub("banana", "1/2 mashed banana per egg", "Adds banana flavor, great for muffins and pancakes"),
          Sub("flax egg", "1 tbsp ground flaxseed + 3 tbsp water per egg", "Let sit 5 minutes, vegan option") >> >>,
       <<"all-purpose flour", <<
          Sub("cake flour", "1 cup + 2 tbsp cake flour per 1 cup AP flour", "Creates more tender baked goods"),
          Sub("bread flour", "Use 2 tbsp less per cup", "Creates chewier texture, great for pizza dough"),
          Sub("almond flour", "Use 1/4 less", "Gluten-free, adds nuttiness, denser texture") >> >>,
       <<"white sugar", <<
          Sub("brown sugar", "1:1 ratio", "Adds molasses flavor and moisture"),
          Sub("honey", "3/4 cup per 1 cup sugar", "Reduce liquid by 1/4 cup, adds floral notes"),
          Sub("maple syrup", "3/4 cup per 1 cup sugar", "Reduce liquid by 3 tbsp, distinct maple flavor") >> >>,
       <<"fresh herbs", <<
          Sub("dried herbs", "1/3 the amount", "1 tbsp fresh = 1 tsp dried, add later in cooking"),
          Sub("herb paste", "1 tsp paste = 1 tbsp fresh", "More concentrated flavor") >> >>,
       <<"garlic", <<
          Sub("garlic powder", "1/8 tsp per clove", "Less pungent, dissolves easily"),
          Sub("garlic salt", "1/2 tsp per clove", "Reduce other salt in recipe"),
          Sub("shallots", "1 small shallot per 2 cloves", "Milder, slightly sweet flavor") >> >>,
       <<"ground beef", <<
          Sub("ground turkey", "1:1 ratio", "Leaner option, may need extra oil for cooking"),
          Sub("lentils", "1 cup cooked lentils per 1/2 lb meat", "Vegetarian option, add extra seasoning"),
          Sub("mushrooms", "2 cups diced mushrooms per 1/2 lb meat", "Umami-rich, great texture for sauces") >> >>,
       <<"worcestershire sauce", <<
          Sub("soy sauce + vinegar", "1 tbsp soy sauce + 1/2 tsp vinegar", "Add pinch of sugar for complexity"),
          Sub("fish sauce", "Use half the amount", "More intense umami flavor") >> >>,
       <<"wine", <<
          Sub("chicken/beef broth", "1:1 ratio", "Use broth that matches your dish"),
          Sub("grape juice + vinegar", "1 cup juice + 1 tbsp vinegar", "For white wine in cooking") >> >>
    >>

\* dict.keys(): the keys in declaration order
DictKeys(d) == [i \in 1..Len(d) |-> d[i][1]]

\* key in d
DictHas(d, k) == \E i \in 1..Len(d) : d[i][1] = k

\* d[key]
DictGet(d, k) == d[CHOOSE i \in 1..Len(d) : d[i][1] = k][2]

\* DictSet with a known key moved to the end
DictSet_MoveToEnd(d, k, v) ==
    Append(SelectSeq(d, LAMBDA pair : pair[1] # k), <<k, v>>)

\* d[key] = value: a new key goes last, a known key keeps its place
DictSet(d, k, v) ==
    IF DictHas(d, k)
    THEN [i \in 1..Len(d) |-> IF d[i][1] = k THEN <<k, v>> ELSE d[i]]
    ELSE Append(d, <<k, v>>)

(***************************************************************************)
(* substitutions.py: find_substitutions, get_substitution_suggestions.     *)
(***************************************************************************)
None == [isNone |-> TRUE, subs |-> <<>>]
Some(s) == [isNone |-> FALSE, subs |-> s]

\* Python's truth value of a result: None and the empty list are false
Truthy(r) == ~r.isNone /\ r.subs # <<>>

\* PartialMatch with the last matching key winning, not the first
PartialMatch_Last(d, ingredient_lower, i) ==
    LET hits == {j \in i..Len(d) : Contains(ingredient_lower, d[j][1])
                                   \/ Contains(d[j][1], ingredient_lower)}
    IN  IF hits = {} THEN None
        ELSE Some(d[CHOOSE j \in hits : \A k \in hits : k <= j][2])

\* PartialMatch that only looks for a key inside the input
PartialMatch_KeyInInput(d, ingredient_lower, i) ==
    LET hits == {j \in i..Len(d) : Contains(ingredient_lower, d[j][1])}
    IN  IF hits = {} THEN None
        ELSE Some(d[CHOOSE j \in hits : \A k \in hits : j <= k][2])

RECURSIVE PartialMatch(_, _, _)
\* the loop over the table's keys from index i on
PartialMatch(d, ingredient_lower, i) ==
    IF i > Len(d) THEN None
    ELSE IF Contains(ingredient_lower, d[i][1]) \/ Contains(d[i][1], ingredient_lower)
         THEN Some(d[i][2])
         ELSE PartialMatch(d, ingredient_lower, i + 1)

\* find_substitutions without the lower-casing
find_substitutions_NoLower(d, ingredient) ==
    LET ingredient_lower == Strip(ingredient) IN
    IF DictHas(d, ingredient_lower)
    THEN Some(DictGet(d, ingredient_lower))
    ELSE PartialMatch(d, ingredient_lower, 1)

\* find_substitutions that answers None for an empty name
find_substitutions_RejectEmpty(d, ingredient) ==
    LET ingredient_lower == Strip(Lower(ingredient)) IN
    IF ingredient_lower = "" THEN None
    ELSE IF DictHas(d, ingredient_lower)
    THEN Some(DictGet(d, ingredient_lower))
    ELSE PartialMatch(d, ingredient_lower, 1)

find_substitutions(d, ingredient) ==
    LET ingredient_lower == Strip(Lower(ingredient)) IN
    IF DictHas(d, ingredient_lower)
    THEN Some(DictGet(d, ingredient_lower))
    ELSE PartialMatch(d, ingredient_lower, 1)

RECURSIVE SuggestionsFrom(_, _, _, _)
\* the loop over ingredients_list from index i on, suggestions being the dict so far
SuggestionsFrom(d, ingredients_list, i, suggestions) ==
    IF i > Len(ingredients_list) THEN suggestions
    ELSE LET subs == find_substitutions(d, ingredients_list[i]) IN
         SuggestionsFrom(d, ingredients_list, i + 1,
             IF Truthy(subs) THEN DictSet(suggestions, ingredients_list[i], subs.subs)
             ELSE suggestions)

get_substitution_suggestions(d, ingredients_list) ==
    SuggestionsFrom(d, ingredients_list, 1, <<>>)

(***************************************************************************)
(* prod_server.py: smart_search.                                           *)
(***************************************************************************)
substitution_keywords ==
    <<"substitute", "replace", "instead of", "don't have", "out of",
      "alternative", "swap", "use instead", "without", "missing">>

food_keywords ==
    <<"chicken", "beef", "pork", "fish", "salmon", "pasta", "pizza", "burger",
      "salad", "soup", "dessert", "cake", "cookies", "bread", "rice", "noodles",
      "vegetables", "healthy", "quick", "easy", "cheap", "budget", "kids",
      "spicy", "hot", "mild", "sweet", "sour", "chinese", "italian", "mexican",
      "indian", "thai", "breakfast", "lunch", "dinner", "snack", "appetizer",
      "main", "side", "comfort", "fried", "grilled", "baked", "steamed">>

stop_words ==
    <<"what", "want", "need", "like", "have", "make", "cook", "something", "anything">>

\* x in lst
InList(lst, x) == \E i \in 1..Len(lst) : lst[i] = x

\* lst[:n]
Take(lst, n) == SubSeq(lst, 1, IF Len(lst) < n THEN Len(lst) ELSE n)

\* IsSubstitutionQuery that takes every message for a substitution question
IsSubstitutionQuery_Always(message_lower) == TRUE

\* any(keyword in message_lower for keyword in substitution_keywords)
IsSubstitutionQuery(message_lower) ==
    \E i \in 1..Len(substitution_keywords) :
        Contains(message_lower, substitution_keywords[i])

\* PotentialIngredients with the keys in the reverse of the table's order
PotentialIngredients_Reversed(d, message_lower) ==
    LET found == SelectSeq(DictKeys(d), LAMBDA ingredient : Contains(message_lower, ingredient))
    IN  [i \in 1..Len(found) |-> found[Len(found) + 1 - i]]

\* the table's keys that occur in the message, in the table's order
PotentialIngredients(d, message_lower) ==
    SelectSeq(DictKeys(d), LAMBDA ingredient : Contains(message_lower, ingredient))

\* the food keywords that occur in the message, in the list's order
KeywordTerms(message_lower) ==
    SelectSeq(food_keywords, LAMBDA keyword : Contains(message_lower, keyword))

\* the words longer than 3 characters that are no stop word
PotentialTerms(message_lower) ==
    SelectSeq(Split(message_lower), LAMBDA word : Len(word) > 3 /\ ~InList(stop_words, word))

RECURSIVE Distinct(_, _)
\* the elements of lst from index i on that occur nowhere before, in order
Distinct(lst, i) ==
    IF i > Len(lst) THEN <<>>
    ELSE (IF \E j \in 1..(i - 1) : lst[j] = lst[i] THEN <<>> ELSE <<lst[i]>>)
         \o Distinct(lst, i + 1)

HashAlphabet == LowerCase \o " '-"

\* the slot of a string in a set's hash table under a hash seed
Slot(str, seed) ==
    (Len(str) * (seed + 1) + seed * IndexIn(HashAlphabet, CharAt(str, 1))) % 8

RECURSIVE InsertBySlot(_, _, _)
\* x put into the slot-ordered lst, after the elements of its own slot
InsertBySlot(lst, x, seed) ==
    IF lst = <<>> THEN <<x>>
    ELSE IF Slot(x, seed) < Slot(Head(lst), seed) THEN <<x>> \o lst
         ELSE <<Head(lst)>> \o InsertBySlot(Tail(lst), x, seed)

RECURSIVE SortBySlot(_, _, _)
SortBySlot(lst, i, seed) ==
    IF i = 0 THEN <<>> ELSE InsertBySlot(SortBySlot(lst, i - 1, seed), lst[i], seed)

\* ListOfSet that keeps the duplicates
ListOfSet_KeepDuplicates(lst, seed) == SortBySlot(lst, Len(lst), seed)

\* list(set(lst)): each element once, in the set's iteration order, which the
\* process's hash seed fixes
ListOfSet(lst, seed) ==
    LET d == Distinct(lst, 1) IN SortBySlot(d, Len(d), seed)

\* SearchTerms that gives up on a message that asks for a substitution
SearchTerms_NoneForSubstitution(message_lower, seed) ==
    IF IsSubstitutionQuery(message_lower) THEN <<>>
    ELSE ListOfSet(KeywordTerms(message_lower) \o PotentialTerms(message_lower), seed)

\* search_terms after "Remove duplicates"
SearchTerms(message_lower, seed) ==
    ListOfSet(KeywordTerms(message_lower) \o PotentialTerms(message_lower), seed)

\* the local variables of smart_search once it has chosen its branch and, on
\* the recipe branch, built search_terms
Classify(d, message, seed) ==
    LET message_lower == Lower(message)
        is_substitution_query == IsSubstitutionQuery(message_lower)
        potential_ingredients ==
            IF is_substitution_query THEN PotentialIngredients(d, message_lower) ELSE <<>>
    IN  IF is_substitution_query /\ potential_ingredients # <<>>
        THEN [branch |-> "substitution",
              message_lower |-> message_lower,
              is_substitution_query |-> is_substitution_query,
              potential_ingredients |-> potential_ingredients,
              ingredient |-> potential_ingredients[1],
              search_terms |-> <<>>,
              bound |-> {"message_lower", "is_substitution_query",
                         "potential_ingredients", "ingredient"}]
        ELSE [branch |-> "recipe_search",
              message_lower |-> message_lower,
              is_substitution_query |-> is_substitution_query,
              potential_ingredients |-> potential_ingredients,
              ingredient |-> "",
              search_terms |-> SearchTerms(message_lower, seed),
              bound |-> {"message_lower", "is_substitution_query", "search_terms"}
                        \cup (IF is_substitution_query THEN {"potential_ingredients"} ELSE {})]

SubstituteFallback(ingredient) ==
    "Yes, Chef! I've got some great substitutes for " \o ingredient \o ". Let me help you out!"

\* SubstitutionChat with no reply left when the NLG call raises
SubstitutionChat_NoFallbackOnRaise(ingredient, cl, nlg) ==
    IF cl = "configured" THEN (IF nlg = "answers" THEN "ai reply" ELSE "")
    ELSE SubstituteFallback(ingredient)

\* the substitution branch's chat_response; nlg is what the NLG call does
SubstitutionChat(ingredient, cl, nlg) ==
    IF cl = "configured" /\ nlg = "answers" THEN "ai reply"
    ELSE SubstituteFallback(ingredient)

\* SubstitutionResponse without the search_terms field
SubstitutionResponse_NoSearchTerms(d, ingredient, cl, nlg) ==
    [status |-> 200,
     body |-> [success |-> TRUE,
               chat_response |-> SubstitutionChat(ingredient, cl, nlg),
               recipes |-> <<>>,
               substitutions |-> << <<ingredient, find_substitutions(d, ingredient)>> >>,
               type |-> "substitution_response"]]

\* the substitution branch's response
SubstitutionResponse(d, ingredient, cl, nlg) ==
    [status |-> 200,
     body |-> [success |-> TRUE,
               chat_response |-> SubstitutionChat(ingredient, cl, nlg),
               recipes |-> <<>>,
               search_terms |-> <<ingredient>>,
               substitutions |-> << <<ingredient, find_substitutions(d, ingredient)>> >>,
               type |-> "substitution_response"]]

HTTPException(code, text) == [status |-> code, detail |-> text]

\* get_db(): whether it returns a connection
GetDbSucceeds(ds) == ds # "missing"

\* SearchTrace whose query filters on every search term
SearchTrace_AllTerms(search_terms, ds) ==
    IF search_terms = <<>> THEN <<>>
    ELSE IF ~GetDbSucceeds(ds)
    THEN << [by |-> "smart_search", op |-> "connect", terms |-> <<>>, ok |-> FALSE] >>
    ELSE << [by |-> "smart_search", op |-> "connect", terms |-> <<>>, ok |-> TRUE],
            [by |-> "smart_search", op |-> "search", terms |-> search_terms,
             join |-> "OR", ok |-> ds = "ok"] >>

\* the datastore accesses of the recipe search: get_db(), then one SELECT
\* whose WHERE clause joins by OR the LIKE conditions of search_terms[:3]
SearchTrace(search_terms, ds) ==
    IF search_terms = <<>> THEN <<>>
    ELSE IF ~GetDbSucceeds(ds)
    THEN << [by |-> "smart_search", op |-> "connect", terms |-> <<>>, ok |-> FALSE] >>
    ELSE << [by |-> "smart_search", op |-> "connect", terms |-> <<>>, ok |-> TRUE],
            [by |-> "smart_search", op |-> "search", terms |-> Take(search_terms, 3),
             join |-> "OR", ok |-> ds = "ok"] >>

\* SearchRaises that forgets a query can fail on a database that opens
SearchRaises_OnlyMissing(search_terms, ds) == search_terms # <<>> /\ ds = "missing"

\* whether the recipe search raises
SearchRaises(search_terms, ds) == search_terms # <<>> /\ ds # "ok"

\* the datastore accesses of chat_with_hungie
ChatTrace(cl, ds) ==
    IF cl # "configured" THEN <<>>
    ELSE IF ~GetDbSucceeds(ds)
    THEN << [by |-> "chat_with_hungie", op |-> "connect", terms |-> <<>>, ok |-> FALSE] >>
    ELSE IF ds = "broken"
         THEN << [by |-> "chat_with_hungie", op |-> "connect", terms |-> <<>>, ok |-> TRUE],
                 [by |-> "chat_with_hungie", op |-> "sample", terms |-> <<>>, ok |-> FALSE] >>
         ELSE << [by |-> "chat_with_hungie", op |-> "connect", terms |-> <<>>, ok |-> TRUE],
                 [by |-> "chat_with_hungie", op |-> "sample", terms |-> <<>>, ok |-> TRUE],
                 [by |-> "chat_with_hungie", op |-> "categories", terms |-> <<>>, ok |-> TRUE] >>

\* fallback_responses[0] of chat_with_hungie, which is also the sentence
\* smart_search uses without a client (the emoji of the source left out)
Greeting ==
    "Yes, Chef! I'm here to help you find something delicious! What are you craving today?"

\* chat_with_hungie(...)["response"]: it catches every exception of its own
ChatWithHungie(cl, ds, nlg) ==
    IF cl # "configured" THEN "technical difficulties"
    ELSE IF ds = "ok" /\ nlg = "answers" THEN "ai reply"
    ELSE Greeting

\* the recipe branch's chat_response
RecipeChat(cl, ds, nlg) ==
    IF cl = "configured" THEN ChatWithHungie(cl, ds, nlg) ELSE Greeting

\* the recipe branch's response, rows being what the query returned
RecipeResponse(search_terms, rows, cl, ds, nlg) ==
    IF SearchRaises(search_terms, ds)
    THEN HTTPException(500, IF GetDbSucceeds(ds) THEN "query failed"
                            ELSE "500: Database connection failed")
    ELSE [status |-> 200,
          body |-> [success |-> TRUE,
                    chat_response |-> RecipeChat(cl, ds, nlg),
                    recipes |-> IF search_terms = <<>> THEN <<>> ELSE rows,
                    search_terms |-> search_terms]]

\* the datastore accesses of the recipe branch
RecipeTrace(search_terms, cl, ds) ==
    SearchTrace(search_terms, ds)
    \o (IF SearchRaises(search_terms, ds) THEN <<>> ELSE ChatTrace(cl, ds))

smart_search(d, l, rows, cl, ds, nlg) ==
    IF l.branch = "substitution"
    THEN SubstitutionResponse(d, l.ingredient, cl, nlg)
    ELSE RecipeResponse(l.search_terms, rows, cl, ds, nlg)

\* the NLG calls of smart_search, each with what the call did: the
\* substitution branch calls the client when there is one; the recipe branch
\* goes through chat_with_hungie, which reaches the client only after its two
\* datastore queries have succeeded
SmartSearchNlg(l, cl, ds, nlg) ==
    IF l.branch = "substitution"
    THEN IF cl = "configured" THEN <<nlg>> ELSE <<>>
    ELSE IF SearchRaises(l.search_terms, ds) THEN <<>>
    ELSE IF cl = "configured" /\ ds = "ok" THEN <<nlg>> ELSE <<>>

(***************************************************************************)
(* prod_server.py: the substitution endpoints.                             *)
(***************************************************************************)
AdviceFallback ==
    "Yes, Chef! I'd recommend trying one of these substitutes - they'll work great in your dish!"

OverviewFallback == "Yes, Chef! I found some great substitution options for you!"

\* the NLG calls of get_ingredient_substitution
AdviceNlg(d, ingredient, recipe_context, cl, nlg) ==
    IF Truthy(find_substitutions(d, ingredient)) /\ recipe_context # "" /\ cl = "configured"
    THEN <<nlg>> ELSE <<>>

\* POST /api/substitutions
get_ingredient_substitution(d, ingredient, recipe_context, cl, nlg) ==
    LET substitutions == find_substitutions(d, ingredient) IN
    IF ~Truthy(substitutions)
    THEN [status |-> 200,
          body |-> [success |-> FALSE,
                    message |-> "No substitutions found for '" \o ingredient \o "'",
                    ingredient |-> ingredient,
                    substitutions |-> <<>>]]
    ELSE [status |-> 200,
          body |-> [success |-> TRUE,
                    ingredient |-> ingredient,
                    substitutions |-> substitutions.subs,
                    ai_advice |-> IF recipe_context # "" /\ cl = "configured"
                                  THEN IF nlg = "answers" THEN "ai reply"
                                       ELSE AdviceFallback
                                  ELSE "",
                    recipe_context |-> recipe_context]]

\* the loop that fills results in get_bulk_substitutions
RECURSIVE BulkResults(_, _, _, _)
BulkResults(d, ingredients, i, results) ==
    IF i > Len(ingredients) THEN results
    ELSE LET substitutions == find_substitutions(d, ingredients[i]) IN
         BulkResults(d, ingredients, i + 1,
             IF Truthy(substitutions) THEN DictSet(results, ingredients[i], substitutions.subs)
             ELSE results)

\* MissingIngredients that looks the normalized name up in results
MissingIngredients_Normalized(ingredients, results) ==
    SelectSeq(ingredients, LAMBDA ing : ~DictHas(results, Strip(Lower(ing))))

\* [ing for ing in request.ingredients if ing not in results]
MissingIngredients(ingredients, results) ==
    SelectSeq(ingredients, LAMBDA ing : ~DictHas(results, ing))

\* the NLG calls of get_bulk_substitutions
OverviewNlg(d, ingredients, recipe_context, cl, nlg) ==
    IF recipe_context # "" /\ BulkResults(d, ingredients, 1, <<>>) # <<>> /\ cl = "configured"
    THEN <<nlg>> ELSE <<>>

\* POST /api/substitutions/bulk
get_bulk_substitutions(d, ingredients, recipe_context, cl, nlg) ==
    LET results == BulkResults(d, ingredients, 1, <<>>) IN
    [status |-> 200,
     body |-> [success |-> TRUE,
               requested_ingredients |-> ingredients,
               substitutions |-> results,
               missing_ingredients |-> MissingIngredients(ingredients, results),
               ai_overview |-> IF recipe_context # "" /\ results # <<>> /\ cl = "configured"
                               THEN IF nlg = "answers" THEN "ai reply"
                                    ELSE OverviewFallback
                               ELSE "",
               recipe_context |-> recipe_context]]

\* GET /api/substitutions/browse
browse_substitutions(d) ==
    [status |-> 200,
     body |-> [success |-> TRUE,
               total_ingredients |-> Len(d),
               substitutions |-> d,
               message |-> "Browse our complete substitution database!"]]

(***************************************************************************)
(* Inputs.                                                                 *)
(***************************************************************************)
RECURSIVE Upper(_)
Upper(s) ==
    IF Len(s) = 0 THEN "" ELSE UpperChar(CharAt(s, 1)) \o Upper(SubSeq(s, 2, Len(s)))

RECURSIVE Alternate(_, _)
\* every other letter in upper case, starting in upper case when up
Alternate(s, up) ==
    IF Len(s) = 0 THEN ""
    ELSE (IF up THEN UpperChar(CharAt(s, 1)) ELSE CharAt(s, 1))
         \o Alternate(SubSeq(s, 2, Len(s)), ~up)

CaseVariants(s) == {s, Upper(s), Alternate(s, TRUE)}

Paddings == {"", " \t\n"}

Variants(s) ==
    {lead \o c \o trail : lead \in Paddings, trail \in Paddings, c \in CaseVariants(s)}

KeySet == {TableAtImport[i][1] : i \in 1..Len(TableAtImport)}

IngredientBases ==
    KeySet \cup {"", "sugar", "cream", "xyz-not-an-ingredient", "i don't have heavy cream",
                 "i'm out of heavy cream please", "egg", "flour", "red wine and garlic",
                 "sour cream and eggs", "quinoa", "e", "herb"}

Ingredients == UNION {Variants(b) : b \in IngredientBases}

BulkItems ==
    {"eggs", "sugar", "heavy cream", " Eggs ", "xyz-not-an-ingredient"}

RECURSIVE SeqsUpTo(_, _)
\* the sequences over S of length at most n
SeqsUpTo(S, n) ==
    IF n = 0 THEN {<<>>}
    ELSE LET shorter == SeqsUpTo(S, n - 1) IN
         shorter \cup {Append(q, x) : q \in shorter, x \in S}

IngredientLists == SeqsUpTo(BulkItems, MaxItems)

MessageParts ==
    {"what can I use instead of ", "buttermilk", "I want a quick chicken dinner",
     "i don't have ", "garlic chicken", "substitute quinoa\n", "out of\t",
     "eggs and sour cream ", "WITHOUT Wine"}

RECURSIVE Concat(_)
Concat(parts) == IF parts = <<>> THEN "" ELSE Head(parts) \o Concat(Tail(parts))

Messages == {Concat(parts) : parts \in SeqsUpTo(MessageParts, MaxParts)}

RowsOf(n) == [i \in 1..n |-> i]

Contexts == {"", "pancakes"}

SubstitutionRequests ==
    [ingredient : {"", " ", " \t\n", "heavy cream", " Eggs ", "sugar", "xyz-not-an-ingredient"},
     recipe_context : Contexts]

BulkSubstitutionRequests ==
    [ingredients : SeqsUpTo({"eggs", " Eggs ", "xyz-not-an-ingredient"}, MaxItems),
     recipe_context : Contexts]

(***************************************************************************)
(* The machine.                                                            *)
(***************************************************************************)
NoLocals == [branch |-> "none"]
NoCall == [op |-> "none", arg |-> ""]
NoEarlier == [call |-> NoCall, locals |-> NoLocals, ret |-> None]
NlgOutcomes == {"answers", "raises"}

Init ==
    /\ INGREDIENT_SUBSTITUTIONS = TableAtImport
    /\ client \in {"none", "configured"}
    /\ datastore \in {"ok", "missing", "broken"}
    /\ hashSeed \in 0..MaxSeed
    /\ call = NoCall
    /\ locals = NoLocals
    /\ dbTrace = <<>>
    /\ nlgTrace = <<>>
    /\ ret = None
    /\ earlier = NoEarlier

\* find_substitutions(ingredient), called in a process that holds table d
ServeResolve(d, ingredient) ==
    /\ call' = [op |-> "find_substitutions", arg |-> ingredient]
    /\ ret' = find_substitutions(d, ingredient)
    /\ locals' = NoLocals
    /\ dbTrace' = <<>>
    /\ nlgTrace' = <<>>

\* POST /api/smart-search, served by a process that holds table d and whose
\* string-hash seed is seed
ServeSmartSearch(d, message, seed) ==
    /\ call' = [op |-> "smart_search", arg |-> message]
    /\ locals' = Classify(d, message, seed)
    /\ dbTrace' = IF locals'.branch = "substitution" THEN <<>>
                  ELSE RecipeTrace(locals'.search_terms, client, datastore)
    /\ \E nlg \in NlgOutcomes, n \in 0..MaxRows :
           /\ ret' = smart_search(d, locals', RowsOf(n), client, datastore, nlg)
           /\ nlgTrace' = SmartSearchNlg(locals', client, datastore, nlg)

Resolve ==
    \E ingredient \in Ingredients :
        /\ call = NoCall
        /\ ServeResolve(INGREDIENT_SUBSTITUTIONS, ingredient)
        /\ UNCHANGED <<INGREDIENT_SUBSTITUTIONS, client, datastore, hashSeed, earlier>>

\* ResolveMany that collects the suggestions in the table itself
ResolveMany_StoresInTable ==
    \E ingredients_list \in IngredientLists :
        /\ call = NoCall
        /\ call' = [op |-> "get_substitution_suggestions", arg |-> ingredients_list]
        /\ ret' = get_substitution_suggestions(INGREDIENT_SUBSTITUTIONS, ingredients_list)
        /\ INGREDIENT_SUBSTITUTIONS' = SuggestionsFrom(INGREDIENT_SUBSTITUTIONS, ingredients_list,
                                                       1, INGREDIENT_SUBSTITUTIONS)
        /\ locals' = NoLocals
        /\ dbTrace' = <<>>
        /\ nlgTrace' = <<>>
        /\ UNCHANGED <<client, datastore, hashSeed, earlier>>

ResolveMany ==
    \E ingredients_list \in IngredientLists :
        /\ call = NoCall
        /\ call' = [op |-> "get_substitution_suggestions", arg |-> ingredients_list]
        /\ ret' = get_substitution_suggestions(INGREDIENT_SUBSTITUTIONS, ingredients_list)
        /\ locals' = NoLocals
        /\ dbTrace' = <<>>
        /\ nlgTrace' = <<>>
        /\ UNCHANGED <<INGREDIENT_SUBSTITUTIONS, client, datastore, hashSeed, earlier>>

SmartSearch ==
    \E message \in Messages :
        /\ call = NoCall
        /\ ServeSmartSearch(INGREDIENT_SUBSTITUTIONS, message, hashSeed)
        /\ UNCHANGED <<INGREDIENT_SUBSTITUTIONS, client, datastore, hashSeed, earlier>>

GetIngredientSubstitution ==
    \E request \in SubstitutionRequests, nlg \in NlgOutcomes :
        /\ call = NoCall
        /\ call' = [op |-> "get_ingredient_substitution", arg |-> request]
        /\ ret' = get_ingredient_substitution(INGREDIENT_SUBSTITUTIONS, request.ingredient,
                                              request.recipe_context, client, nlg)
        /\ nlgTrace' = AdviceNlg(INGREDIENT_SUBSTITUTIONS, request.ingredient,
                                 request.recipe_context, client, nlg)
        /\ locals' = NoLocals
        /\ dbTrace' = <<>>
        /\ UNCHANGED <<INGREDIENT_SUBSTITUTIONS, client, datastore, hashSeed, earlier>>

GetBulkSubstitutions ==
    \E request \in BulkSubstitutionRequests, nlg \in NlgOutcomes :
        /\ call = NoCall
        /\ call' = [op |-> "get_bulk_substitutions", arg |-> request]
        /\ ret' = get_bulk_substitutions(INGREDIENT_SUBSTITUTIONS, request.ingredients,
                                         request.recipe_context, client, nlg)
        /\ nlgTrace' = OverviewNlg(INGREDIENT_SUBSTITUTIONS, request.ingredients,
                                   request.recipe_context, client, nlg)
        /\ locals' = NoLocals
        /\ dbTrace' = <<>>
        /\ UNCHANGED <<INGREDIENT_SUBSTITUTIONS, client, datastore, hashSeed, earlier>>

BrowseSubstitutions ==
    /\ call = NoCall
    /\ call' = [op |-> "browse_substitutions", arg |-> ""]
    /\ ret' = browse_substitutions(INGREDIENT_SUBSTITUTIONS)
    /\ locals' = NoLocals
    /\ dbTrace' = <<>>
    /\ nlgTrace' = <<>>
    /\ UNCHANGED <<INGREDIENT_SUBSTITUTIONS, client, datastore, hashSeed, earlier>>

\* the database file appears, disappears or gets damaged between two requests
DatastoreChanges ==
    /\ call = NoCall
    /\ datastore' \in {"ok", "missing", "broken"} \ {datastore}
    /\ UNCHANGED <<INGREDIENT_SUBSTITUTIONS, client, hashSeed, call, locals, dbTrace,
                   nlgTrace, ret, earlier>>

\* the response has been delivered; the process waits for the next request
Reply ==
    /\ call # NoCall
    /\ call' = NoCall
    /\ locals' = NoLocals
    /\ dbTrace' = <<>>
    /\ nlgTrace' = <<>>
    /\ ret' = None
    /\ earlier' = NoEarlier
    /\ UNCHANGED <<INGREDIENT_SUBSTITUTIONS, client, datastore, hashSeed>>

Next ==
    \/ Resolve
    \/ ResolveMany
    \/ SmartSearch
    \/ GetIngredientSubstitution
    \/ GetBulkSubstitutions
    \/ BrowseSubstitutions
    \/ DatastoreChanges
    \/ Reply

Spec == Init /\ [][Next]_vars

\* the caller sends the request it has just been answered once more, to the
\* same process
CallAgain ==
    /\ earlier = NoEarlier
    /\ call.op \in {"find_substitutions", "smart_search"}
    /\ earlier' = [call |-> call, locals |-> locals, ret |-> ret]
    /\ IF call.op = "find_substitutions"
       THEN ServeResolve(INGREDIENT_SUBSTITUTIONS, call.arg)
       ELSE ServeSmartSearch(INGREDIENT_SUBSTITUTIONS, call.arg, hashSeed)
    /\ UNCHANGED <<INGREDIENT_SUBSTITUTIONS, client, datastore, hashSeed>>

\* the caller sends the same request once more after the server process has
\* been started anew: the modules are imported again and the interpreter
\* draws a string-hash seed
CallAgainAfterRestart ==
    /\ earlier = NoEarlier
    /\ call.op \in {"find_substitutions", "smart_search"}
    /\ earlier' = [call |-> call, locals |-> locals, ret |-> ret]
    /\ INGREDIENT_SUBSTITUTIONS' = TableAtImport
    /\ hashSeed' \in 0..MaxSeed
    /\ IF call.op = "find_substitutions"
       THEN ServeResolve(INGREDIENT_SUBSTITUTIONS', call.arg)
       ELSE ServeSmartSearch(INGREDIENT_SUBSTITUTIONS', call.arg, hashSeed')
    /\ UNCHANGED <<client, datastore>>

NextTwice ==
    \/ Next
    \/ CallAgain
    \/ CallAgainAfterRestart

SpecTwice == Init /\ [][NextTwice]_vars

(***************************************************************************)
(* Properties of the resolver.                                             *)
(***************************************************************************)
\* the table's entry sequence for the i-th declared key
EntriesOf(i) == INGREDIENT_SUBSTITUTIONS[i][2]
KeyOf(i) == INGREDIENT_SUBSTITUTIONS[i][1]
KeyIndexes == 1..Len(INGREDIENT_SUBSTITUTIONS)
IndexOfKey(k) == CHOOSE i \in KeyIndexes : KeyOf(i) = k

\* the least element of a non-empty set of numbers
Least(S) == CHOOSE i \in S : \A j \in S : i <= j

\* the keys that equal the text, are inside it or hold it
MatchingKeys(text) ==
    {i \in KeyIndexes : Contains(text, KeyOf(i)) \/ Contains(KeyOf(i), text)}

Resolved == call.op = "find_substitutions"

\* C1: for every key k of the table and every variant of k made by changing
\* letter case and adding leading or trailing whitespace (k itself included),
\* find_substitutions returns exactly the table's entry sequence for k.
C1_KeyVariantsResolveToOwnEntries ==
    Resolved =>
        \A i \in KeyIndexes :
            call.arg \in Variants(KeyOf(i)) => ret = Some(EntriesOf(i))

C1_Witness ==
    /\ Resolved
    /\ call.arg = " \t\n" \o Alternate("sour cream", TRUE) \o " \t\n"
    /\ ret = Some(EntriesOf(IndexOfKey("sour cream")))

\* C2: when the normalized input equals no key, find_substitutions returns the
\* entries of the first key, in declared order, that is a substring of the
\* normalized input or has it as a substring; "i don't have heavy cream" gets
\* the "heavy cream" entries.
C2_FirstDeclaredPartialMatch ==
    Resolved =>
        LET text == Strip(Lower(call.arg)) IN
        /\ (~(\E i \in KeyIndexes : KeyOf(i) = text) /\ MatchingKeys(text) # {})
               => ret = Some(EntriesOf(Least(MatchingKeys(text))))
        /\ call.arg = "i don't have heavy cream"
               => ret = Some(EntriesOf(IndexOfKey("heavy cream")))

C2_Witness ==
    /\ Resolved
    /\ call.arg = "red wine and garlic"
    /\ Cardinality(MatchingKeys(call.arg)) = 2
    /\ ret = Some(EntriesOf(IndexOfKey("garlic")))

\* C3: find_substitutions returns None exactly when no key equals the
\* normalized input, is a substring of it or contains it;
\* "xyz-not-an-ingredient" gets None.
C3_NoneIffNoKeyMatches ==
    Resolved =>
        /\ ret.isNone <=> MatchingKeys(Strip(Lower(call.arg))) = {}
        /\ ret.isNone => ret = None
        /\ call.arg = "xyz-not-an-ingredient" => ret = None

C3_Witness ==
    /\ Resolved
    /\ call.arg = "xyz-not-an-ingredient"
    /\ ret = None

ResolvedMany == call.op = "get_substitution_suggestions"

\* C4, as claimed: get_substitution_suggestions(["eggs", "sugar", "heavy
\* cream"]) returns a mapping whose keys are only "eggs" and "heavy cream".
C4_SugarLeftOut ==
    (ResolvedMany /\ call.arg = <<"eggs", "sugar", "heavy cream">>)
        => DictKeys(ret) = <<"eggs", "heavy cream">>

\* C4, amended: get_substitution_suggestions(["eggs", "sugar", "heavy cream"])
\* returns a mapping with the keys "eggs", "sugar" and "heavy cream", in that
\* order; "sugar" is a substring of the key "white sugar" and maps to its entries.
C4_SugarMatchesWhiteSugar ==
    (ResolvedMany /\ call.arg = <<"eggs", "sugar", "heavy cream">>)
        => /\ DictKeys(ret) = <<"eggs", "sugar", "heavy cream">>
           /\ DictGet(ret, "eggs") = EntriesOf(IndexOfKey("eggs"))
           /\ DictGet(ret, "sugar") = EntriesOf(IndexOfKey("white sugar"))
           /\ DictGet(ret, "heavy cream") = EntriesOf(IndexOfKey("heavy cream"))

C4_Witness ==
    /\ ResolvedMany
    /\ call.arg = <<"eggs", "sugar", "heavy cream">>
    /\ Len(ret) = 3

\* the index at which item x occurs first in the list
FirstIndex(lst, x) == Least({i \in 1..Len(lst) : lst[i] = x})

\* C5: get_substitution_suggestions returns a mapping whose keys are exactly
\* the input items, as given, that find_substitutions does not answer with
\* None, each mapped to what find_substitutions returns for it, in the order
\* of their first occurrence in the input.
C5_BulkKeepsResolvedItemsInOrder ==
    ResolvedMany =>
        LET items == call.arg
            keys == DictKeys(ret)
        IN  /\ {keys[i] : i \in 1..Len(keys)}
                 = {items[i] : i \in {j \in 1..Len(items) :
                        ~find_substitutions(INGREDIENT_SUBSTITUTIONS, items[j]).isNone}}
            /\ \A i, j \in 1..Len(keys) :
                   i < j => FirstIndex(items, keys[i]) < FirstIndex(items, keys[j])
            /\ \A i \in 1..Len(keys) :
                   Some(ret[i][2]) = find_substitutions(INGREDIENT_SUBSTITUTIONS, keys[i])

C5_Witness ==
    /\ ResolvedMany
    /\ call.arg = <<" Eggs ", "xyz-not-an-ingredient", " Eggs ">>
    /\ DictKeys(ret) = <<" Eggs ">>

(***************************************************************************)
(* Properties of the classifier: the part of smart_search that chooses the *)
(* branch and builds search_terms.                                         *)
(***************************************************************************)
Searched == call.op = "smart_search"

Range(lst) == {lst[i] : i \in 1..Len(lst)}

Phrases ==
    {"substitute", "replace", "instead of", "don't have", "out of",
     "alternative", "swap", "use instead", "without", "missing"}

HasPhrase(text) == \E phrase \in Phrases : Contains(text, phrase)

\* the declared keys that occur in the text
KeysIn(text) == {i \in KeyIndexes : Contains(text, KeyOf(i))}

StopWordSet ==
    {"what", "want", "need", "like", "have", "make", "cook", "something", "anything"}

IsSpace(text, i) == CharAt(text, i) \in Whitespace

\* the whitespace-separated tokens of the text: its maximal runs of
\* characters that are no whitespace
Tokens(text) ==
    LET starts == {i \in 1..Len(text) :
                       ~IsSpace(text, i) /\ (i = 1 \/ IsSpace(text, i - 1))}
        EndOf(i) == Least({j \in i..Len(text) : j = Len(text) \/ IsSpace(text, j + 1)})
    IN  {SubSeq(text, i, EndOf(i)) : i \in starts}

VocabularyIn(text) ==
    {food_keywords[i] : i \in {j \in 1..Len(food_keywords) : Contains(text, food_keywords[j])}}

\* Step 3: the vocabulary terms in the text and its tokens longer than 3
\* characters that are no stop word
Step3Terms(text) ==
    VocabularyIn(text) \cup {t \in Tokens(text) : Len(t) > 3 /\ t \notin StopWordSet}

Intent == IF locals.branch = "substitution" THEN "SUBSTITUTION" ELSE "RECIPE_SEARCH"

\* the response is the substitution branch's
SubstitutionAnswer == ret.status = 200 /\ "type" \in DOMAIN ret.body

\* C6: a message whose lower-cased text contains a substitution phrase and at
\* least one table key is classified SUBSTITUTION, its matched ingredient
\* being the first such key in the table's declared order wherever the keys
\* stand in the message; "what can I use instead of buttermilk" matches
\* "buttermilk".
C6_SubstitutionMatchesFirstDeclaredKey ==
    Searched =>
        LET text == Lower(call.arg) IN
        /\ (HasPhrase(text) /\ KeysIn(text) # {})
               => /\ Intent = "SUBSTITUTION"
                  /\ locals.ingredient = KeyOf(Least(KeysIn(text)))
                  /\ SubstitutionAnswer
                  /\ DictKeys(ret.body.substitutions) = <<KeyOf(Least(KeysIn(text)))>>
        /\ call.arg = "what can I use instead of buttermilk"
               => Intent = "SUBSTITUTION" /\ locals.ingredient = "buttermilk"

C6_Witness ==
    /\ Searched
    /\ call.arg = "i don't have eggs and sour cream "
    /\ Intent = "SUBSTITUTION"
    /\ locals.ingredient = "sour cream"

\* C7: a message that contains a substitution phrase but no table key is not
\* classified SUBSTITUTION and classifying it is no error: the handler goes on
\* to the recipe branch, with search_terms extracted from the whole message by
\* the Step 3 rules.
C7_PhraseWithoutKeyFallsBackToRecipeSearch ==
    Searched =>
        LET text == Lower(call.arg) IN
        (HasPhrase(text) /\ KeysIn(text) = {})
            => /\ Intent = "RECIPE_SEARCH"
               /\ "search_terms" \in locals.bound
               /\ Range(locals.search_terms) = Step3Terms(text)
               /\ ~SubstitutionAnswer
               /\ ret.status = 200 => ret.body.search_terms = locals.search_terms

C7_Witness ==
    /\ Searched
    /\ call.arg = "substitute quinoa\n"
    /\ Intent = "RECIPE_SEARCH"
    /\ Range(locals.search_terms) = {"substitute", "quinoa"}
    /\ ret.status = 200

\* C8: a message whose lower-cased text contains none of the ten substitution
\* phrases is classified RECIPE_SEARCH even when it contains a table key
\* ("garlic chicken"); SUBSTITUTION is never produced without a phrase.
C8_NoPhraseNoSubstitution ==
    Searched =>
        LET text == Lower(call.arg) IN
        /\ ~HasPhrase(text) => (Intent = "RECIPE_SEARCH" /\ ~SubstitutionAnswer)
        /\ (Intent = "SUBSTITUTION" \/ SubstitutionAnswer) => HasPhrase(text)

C8_Witness ==
    /\ Searched
    /\ call.arg = "garlic chicken"
    /\ KeysIn(call.arg) # {}
    /\ Intent = "RECIPE_SEARCH"

\* C9: in every RECIPE_SEARCH result search_terms has no duplicates and, as a
\* set, is the union of the food-vocabulary terms that are substrings of the
\* lower-cased message and of its whitespace-separated tokens longer than 3
\* characters that are none of the nine stop words; "I want a quick chicken
\* dinner" yields a set that holds "chicken", "quick" and "dinner".
C9_SearchTermsAreStep3Set ==
    (Searched /\ Intent = "RECIPE_SEARCH") =>
        LET terms == locals.search_terms IN
        /\ \A i, j \in 1..Len(terms) : terms[i] = terms[j] => i = j
        /\ Range(terms) = Step3Terms(Lower(call.arg))
        /\ ret.status = 200 => ret.body.search_terms = terms
        /\ call.arg = "I want a quick chicken dinner"
               => {"chicken", "quick", "dinner"} \subseteq Range(terms)

C9_Witness ==
    /\ Searched
    /\ call.arg = "I want a quick chicken dinner"
    /\ Intent = "RECIPE_SEARCH"
    /\ Range(locals.search_terms) = {"chicken", "quick", "dinner"}
    /\ Len(locals.search_terms) = 3

\* the response holds every field of a result
CompleteResult ==
    /\ ret.status = 200
    /\ {"success", "chat_response", "recipes", "search_terms"} \subseteq DOMAIN ret.body
    /\ ret.body.success

\* C10, as claimed: for every message and in every state of the datastore and
\* of the NLG service, the operation that classifies the message returns a
\* complete result and no error.
C10_NeverRaises == Searched => CompleteResult

\* C10, amended: choosing the branch and building search_terms never raises,
\* and smart_search returns a complete result and no error in every state of
\* the NLG service, unless the message is a recipe search with non-empty
\* search_terms and the datastore is missing or its query fails: then, and
\* only then, it raises HTTP 500.  The empty message yields RECIPE_SEARCH
\* with search_terms = [] and a complete result in every state of the
\* datastore and of the NLG service.
C10_RaisesOnlyOnFailedRecipeQuery ==
    Searched =>
        /\ locals.branch \in {"substitution", "recipe_search"}
        /\ ret.status \in {200, 500}
        /\ ret.status = 500 <=> (/\ Intent = "RECIPE_SEARCH"
                                 /\ locals.search_terms # <<>>
                                 /\ datastore \in {"missing", "broken"})
        /\ ret.status = 200 => CompleteResult
        /\ call.arg = "" => (/\ Intent = "RECIPE_SEARCH"
                             /\ locals.search_terms = <<>>
                             /\ CompleteResult
                             /\ ret.body.search_terms = <<>>)

C10_Witness ==
    /\ Searched
    /\ call.arg = "garlic chicken"
    /\ datastore = "broken"
    /\ ret.status = 500

Accesses(by, op) == SelectSeq(dbTrace, LAMBDA e : e.by = by /\ e.op = op)

\* the queries sent to the datastore during the call
Queries == SelectSeq(dbTrace, LAMBDA e : e.op # "connect")

\* C14 (as the claim states it): on the recipe branch the datastore is
\* queried if and only if search_terms is not empty, the query filtering on
\* the first min(3, n) of the n terms joined by OR; with search_terms empty
\* no query is sent to the datastore and the recipes list is empty.
C14_QueriedIffSearchTerms ==
    (Searched /\ Intent = "RECIPE_SEARCH") =>
        LET search_terms == locals.search_terms
            n == Len(search_terms)
        IN  /\ Queries # <<>> <=> search_terms # <<>>
            /\ \A i \in 1..Len(Accesses("smart_search", "search")) :
                   LET q == Accesses("smart_search", "search")[i] IN
                   /\ q.join = "OR"
                   /\ Len(q.terms) = (IF n < 3 THEN n ELSE 3)
                   /\ \A j \in 1..Len(q.terms) : q.terms[j] = search_terms[j]
            /\ search_terms = <<>> => (Queries = <<>> /\ ret.body.recipes = <<>>)

\* C14, amended: on the recipe branch smart_search asks for a connection if
\* and only if search_terms is not empty, and sends its recipe query, one
\* query, if and only if moreover the database file exists (without it the
\* handler raises HTTP 500 and sends none); the query filters on the first
\* min(3, n) of the n terms joined by OR.  With search_terms empty
\* smart_search sends no recipe query and the recipes list is empty, but
\* chat_with_hungie, which the branch calls when there is an NLG client,
\* reads the datastore for its own context whatever search_terms is.
C14_RecipeQueryIffSearchTermsAndDatabase ==
    (Searched /\ Intent = "RECIPE_SEARCH") =>
        LET search_terms == locals.search_terms
            n == Len(search_terms)
            searches == Accesses("smart_search", "search")
        IN  /\ Accesses("smart_search", "connect") # <<>> <=> search_terms # <<>>
            /\ Len(Accesses("smart_search", "connect")) <= 1
            /\ Len(searches) = (IF search_terms # <<>> /\ datastore # "missing" THEN 1 ELSE 0)
            /\ search_terms # <<>> /\ datastore = "missing" => ret.status = 500
            /\ \A i \in 1..Len(searches) :
                   /\ searches[i].join = "OR"
                   /\ Len(searches[i].terms) = (IF n < 3 THEN n ELSE 3)
                   /\ \A j \in 1..Len(searches[i].terms) :
                          searches[i].terms[j] = search_terms[j]
            /\ search_terms = <<>> =>
                   /\ ret.status = 200
                   /\ ret.body.recipes = <<>>
                   /\ \A i \in 1..Len(dbTrace) : dbTrace[i].by = "chat_with_hungie"
                   /\ Accesses("chat_with_hungie", "sample") # <<>>
                          <=> (client = "configured" /\ datastore # "missing")

\* a message with more than three search terms, its query sent
C14_Witness ==
    /\ Searched
    /\ Intent = "RECIPE_SEARCH"
    /\ Len(locals.search_terms) > 3
    /\ Len(Accesses("smart_search", "search")) = 1
    /\ Accesses("smart_search", "search")[1].terms = SubSeq(locals.search_terms, 1, 3)
    /\ ret.status = 200

\* C15: for a message classified SUBSTITUTION smart_search returns, with
\* status 200 and success, a substitution_response whose substitutions
\* mapping has the matched ingredient as its one key, with exactly the table's
\* entries of that key (never None, never empty), and whose recipes list is
\* empty; it opens no datastore connection, so that a missing or damaged
\* datastore changes nothing; chat_response is the NLG client's reply when
\* there is a client and it answers, and the fixed sentence naming the
\* ingredient when there is no client or the call raises.
C15_SubstitutionAnswerWithoutDatastore ==
    (Searched /\ Intent = "SUBSTITUTION") =>
        LET ingredient == locals.ingredient
            sentence == "Yes, Chef! I've got some great substitutes for " \o ingredient
                            \o ". Let me help you out!"
        IN  /\ ret.status = 200
            /\ ret.body.success
            /\ ret.body.type = "substitution_response"
            /\ \E i \in KeyIndexes :
                   /\ KeyOf(i) = ingredient
                   /\ EntriesOf(i) # <<>>
                   /\ ret.body.substitutions
                          = << <<ingredient, [isNone |-> FALSE, subs |-> EntriesOf(i)]>> >>
            /\ ret.body.recipes = <<>>
            /\ dbTrace = <<>>
            /\ nlgTrace = <<>> <=> client = "none"
            /\ nlgTrace \in {<<>>, <<"answers">>, <<"raises">>}
            /\ nlgTrace = <<"answers">> => ret.body.chat_response = "ai reply"
            /\ nlgTrace # <<"answers">> => ret.body.chat_response = sentence

\* the NLG call raises and the database file is missing
C15_Witness ==
    /\ Searched
    /\ call.arg = "what can I use instead of buttermilk"
    /\ Intent = "SUBSTITUTION"
    /\ datastore = "missing"
    /\ nlgTrace = <<"raises">>
    /\ ret.status = 200
    /\ ret.body.chat_response
           = "Yes, Chef! I've got some great substitutes for buttermilk. Let me help you out!"

(***************************************************************************)
(* Claims about the table and the substitution endpoints.                  *)
(***************************************************************************)
Browsed == call.op = "browse_substitutions"

\* C13: whatever calls of find_substitutions, get_substitution_suggestions,
\* smart_search and browse_substitutions (and of the two other substitution
\* endpoints) have been made, the table has the keys it had at import, in the
\* same order, each with the same entry sequence: no call adds, removes or
\* changes a key or an entry.
C13_TableAsAtImport ==
    /\ DictKeys(INGREDIENT_SUBSTITUTIONS) = DictKeys(TableAtImport)
    /\ \A i \in 1..Len(TableAtImport) : EntriesOf(i) = TableAtImport[i][2]

C13_Witness ==
    /\ Browsed
    /\ ret.body.total_ingredients = 11
    /\ ret.body.substitutions = TableAtImport
    /\ INGREDIENT_SUBSTITUTIONS = TableAtImport

AskedOne == call.op = "get_ingredient_substitution"

\* the text is empty or made of whitespace only
Blank(text) == \A i \in 1..Len(text) : CharAt(text, i) \in {" ", "\t", "\n"}

\* C16: for the empty string and for every input made of whitespace only,
\* find_substitutions does not return None: the input normalizes to the empty
\* string, which is inside every key, so the entries of the first declared
\* key, "heavy cream", are returned; and POST /api/substitutions answers such
\* an ingredient with success and those entries.
C16_BlankInputResolvesToFirstKey ==
    /\ (Resolved /\ Blank(call.arg)) =>
           /\ Strip(Lower(call.arg)) = ""
           /\ \A i \in KeyIndexes : Contains(KeyOf(i), "")
           /\ KeyOf(1) = "heavy cream"
           /\ ~ret.isNone
           /\ ret.subs = EntriesOf(1)
    /\ (AskedOne /\ Blank(call.arg.ingredient)) =>
           /\ ret.status = 200
           /\ ret.body.success
           /\ ret.body.ingredient = call.arg.ingredient
           /\ ret.body.substitutions = EntriesOf(1)

C16_Witness ==
    /\ AskedOne
    /\ call.arg.ingredient = " \t\n"
    /\ ret.body.success
    /\ ret.body.substitutions[1].substitute = "milk + butter"

AskedMany == call.op = "get_bulk_substitutions"

\* C17: in every response of POST /api/substitutions/bulk each requested
\* ingredient is either a key of substitutions or an element of
\* missing_ingredients, never both and never neither, and
\* missing_ingredients is the request's list restricted to the ingredients
\* for which find_substitutions returns None, in the request's order.
C17_EachRequestedIngredientFoundOrMissing ==
    AskedMany =>
        LET requested == call.arg.ingredients
            found == Range(DictKeys(ret.body.substitutions))
            missing == ret.body.missing_ingredients
        IN  /\ ret.status = 200
            /\ ret.body.requested_ingredients = requested
            /\ \A i \in 1..Len(requested) :
                   /\ requested[i] \in found \/ requested[i] \in Range(missing)
                   /\ ~(requested[i] \in found /\ requested[i] \in Range(missing))
            /\ found \cup Range(missing) = Range(requested)
            /\ missing = SelectSeq(requested,
                   LAMBDA ing : find_substitutions(INGREDIENT_SUBSTITUTIONS, ing).isNone)

C17_Witness ==
    /\ AskedMany
    /\ call.arg.ingredients = <<"xyz-not-an-ingredient", " Eggs ", "xyz-not-an-ingredient">>
    /\ DictKeys(ret.body.substitutions) = <<" Eggs ">>
    /\ ret.body.missing_ingredients = <<"xyz-not-an-ingredient", "xyz-not-an-ingredient">>

(***************************************************************************)
(* Claims about a request that is sent twice.                              *)
(***************************************************************************)
CalledTwice == earlier # NoEarlier

\* C11 (as the claim states it): a request sent a second time, to the same
\* process or to one started anew, is resolved or classified exactly as the
\* first time: find_substitutions returns what it returned, smart_search
\* takes the same branch with the same ingredient and builds the same
\* search_terms in the same order, so that the recipe query filters on the
\* same three terms at most.
C11_SameInputSameOutput ==
    CalledTwice =>
        /\ earlier.call = call
        /\ call.op = "find_substitutions" => earlier.ret = ret
        /\ call.op = "smart_search" =>
               /\ earlier.locals = locals
               /\ Take(earlier.locals.search_terms, 3) = Take(locals.search_terms, 3)

====
